---- MODULE Spec2Model ----
(***************************************************************************)
(* Model of pcweb/pages/docs/component.py: the Source parser that pairs    *)
(* the comment lines of a component class with its declared props, the     *)
(* prop_docs row builder, the props part and the event triggers part of    *)
(* component_docs; and of FormState of component_lib/forms/form.py.        *)
(*                                                                         *)
(* A line of source text is a sequence of one-character strings, so that   *)
(* str.strip, str.startswith and the two regular expressions are computed  *)
(* character by character, as Python computes them.                        *)
(***************************************************************************)
EXTENDS Integers, Sequences, FiniteSets, TLC

VARIABLES
    getsource,   \* inspect.getsource of the classes above the documented one
    sources,     \* the live Source objects; sources[1] is component_docs' src
    frames,      \* one get_props activation per Source, frames[k] runs on sources[k]
    top,         \* index of the running activation
    phase,       \* position of component_docs
    firstProps,  \* value of src.get_props() in the len() test, line 360
    props,       \* value of src.get_props() in the table comprehension, line 380
    rows,        \* the rows built by prop_docs so far
    printed,     \* what prop_docs printed
    error,       \* the exception that ended the run, "none" while running
    events,      \* component().get_event_triggers().keys(), in the order of the dict
    trig,        \* the list trig of component_docs
    pos,         \* the event the running loop over the triggers is at
    items,       \* the accordion items of the component specific triggers
    widget,      \* what component_specific_triggers is, "none" before it is set
    form_data,   \* FormState.form_data
    submits      \* the arguments of the handle_submit calls so far

\* The variables of the props part of component_docs.
propVars == <<getsource, sources, frames, top, firstProps, props, rows, printed>>

\* The variables of the triggers part of component_docs.
triggerVars == <<events, trig, pos, items, widget>>

\* The variables of FormState.
formVars == <<form_data, submits>>

vars == <<propVars, phase, error, triggerVars, formVars>>

-----------------------------------------------------------------------------
(* Bounds *)

\* Most body lines of the source of a documented class whose base is the root.
MaxLines == 5

\* Most body lines of the source of a documented class that has ancestors to
\* parse, or whose header line carries a remark.
MaxDerivedLines == 2

-----------------------------------------------------------------------------
(* Text *)

\* \w of Python's re module: letters, digits and the underscore.
WordChars == {"a", "b", "c", "d", "e", "f", "g", "h", "i", "j", "k", "l", "m",
              "n", "o", "p", "q", "r", "s", "t", "u", "v", "w", "x", "y", "z",
              "D", "P", "V", "_", "0", "1"}

IsWord(ch) == ch \in WordChars

\* str.strip() without arguments removes white space.
White == {" "}

RECURSIVE LStrip(_, _)
LStrip(s, chars) ==
    IF s = <<>> THEN <<>>
    ELSE IF Head(s) \in chars THEN LStrip(Tail(s), chars)
    ELSE s

RECURSIVE RStrip(_, _)
RStrip(s, chars) ==
    IF s = <<>> THEN <<>>
    ELSE IF s[Len(s)] \in chars THEN RStrip(SubSeq(s, 1, Len(s) - 1), chars)
    ELSE s

\* str.strip(chars)
Strip(s, chars) == RStrip(LStrip(s, chars), chars)

\* str.startswith(prefix)
StartsWith(s, prefix) ==
    /\ Len(s) >= Len(prefix)
    /\ SubSeq(s, 1, Len(prefix)) = prefix

\* re.search("def ", line): the four characters anywhere in the line.
DefPattern == <<"d", "e", "f", " ">>

reached_functions(line) ==
    \E k \in 1..(Len(line) - 3) :
        \A j \in 1..4 : line[k + j - 1] = DefPattern[j]

\* line.strip().startswith("#")
IsCommentLine(line) == StartsWith(Strip(line, White), <<"#">>)

\* The end of the run of word characters that starts at k.
RECURSIVE WordEnd(_, _)
WordEnd(line, k) ==
    IF k <= Len(line) /\ IsWord(line[k]) THEN WordEnd(line, k + 1) ELSE k

\* "\w+:" matches at b: \w+ is greedy and ":" is no word character, so the
\* run of word characters from b is not empty and a colon follows it.
MatchesAt(line, b) ==
    /\ IsWord(line[b])
    /\ WordEnd(line, b) <= Len(line)
    /\ line[WordEnd(line, b)] = ":"

MatchStarts(line) == {b \in 1..Len(line) : MatchesAt(line, b)}

Min(S) == CHOOSE m \in S : \A n \in S : m <= n

\* re.search("\w+:", line): None, or the leftmost match.
HasMatch(line) == \E b \in 1..Len(line) : MatchesAt(line, b)

\* match.group(0)
MatchGroup(line) ==
    LET b == Min(MatchStarts(line))
    IN  SubSeq(line, b, WordEnd(line, b))

\* match.group(0).strip(":")
MatchedProp(line) == Strip(MatchGroup(line), {":"})

RECURSIVE Join(_)
Join(parts) ==
    IF parts = <<>> THEN <<>> ELSE Head(parts) \o Join(Tail(parts))

\* get_comment without the removal of the markers
get_comment_markers_kept(comments) ==
    Join([k \in 1..Len(comments) |-> Strip(comments[k], White)])

\* Source.get_comment: "".join([comment.strip().strip("#") for comment in comments])
get_comment(comments) ==
    Join([k \in 1..Len(comments) |-> Strip(Strip(comments[k], White), {"#"})])

-----------------------------------------------------------------------------
(* The lines the sources are made of *)

\* "class D(P):"
ClassLine == <<"c", "l", "a", "s", "s", " ", "D", "(", "P", ")", ":">>

\* "class D(P):  # a: x", a header whose trailing remark names the prop a
ClassLineRemark == ClassLine \o <<" ", "#", " ", "a", ":", " ", "x">>

\* "    # desc_a"
CommentA == <<" ", "#", " ", "d", "e", "s", "c", "_", "a">>

\* "    # more"
CommentMore == <<" ", "#", " ", "m", "o", "r", "e">>

\* "    # undef x", a comment in which the text "def " occurs
CommentUndef == <<" ", "#", " ", "u", "n", "d", "e", "f", " ", "x">>

\* "    a: Var[int]"
FieldA == <<" ", "a", ":", " ", "V", "a", "r", "[", "i", "n", "t", "]">>

\* "    c: str"
FieldC == <<" ", "c", ":", " ", "s", "t", "r">>

\* "    b: int", a field of the root component class, hence no prop
FieldB == <<" ", "b", ":", " ", "i", "n", "t">>

\* "    def f(self):"
MethodLine == <<" ", "d", "e", "f", " ", "f", "(", "s", "e", "l", "f", ")", ":">>

\* an empty line
EmptyLine == <<>>

HeaderLines == {ClassLine, ClassLineRemark}

BodyLines == {CommentA, CommentMore, CommentUndef, FieldA, FieldC, FieldB,
              MethodLine, EmptyLine}

-----------------------------------------------------------------------------
(* The component classes *)

\* rx.Component
RootComponent == "Component"

\* cls.__bases__
Bases == [Component  |-> <<"Base">>,
          Base       |-> <<"object">>,
          Mixin      |-> <<"object">>,
          Parent     |-> <<"Component">>,
          Child      |-> <<"Parent">>,
          GrandChild |-> <<"Child">>,
          Mixed      |-> <<"Mixin", "Component">>]

\* The classes component_docs is called with.
Documented == {"Parent", "Child", "GrandChild", "Mixed"}

\* The subclasses of rx.Component: what the field component: Type[Component] accepts.
IsComponentClass(cls) == cls \in Documented \cup {RootComponent}

NameA == <<"a">>
NameC == <<"c">>

\* Var[int]: a Var whose argument has a __name__
VarInt == [var |-> TRUE, named |-> TRUE, text |-> "int"]

\* str
Str == [var |-> FALSE, named |-> TRUE, text |-> "str"]

\* component.get_fields()[prop].outer_type_
Fields == (NameA :> VarInt) @@ (NameC :> Str)

\* component.get_props(): the names of the fields that the root class lacks
ComponentProps == {NameA, NameC}

\* Prop(name=..., type_=..., description=...)
Prop(name, type_, description) ==
    [name |-> name, type_ |-> type_, description |-> description]

-----------------------------------------------------------------------------
(* Source *)

\* [line for line in inspect.getsource(component).splitlines() if len(line) > 0]
NonEmptyLines(lines) == SelectSeq(lines, LAMBDA line : Len(line) > 0)

\* Source(component=cls)
NewSource(cls, text) == [component |-> cls, code |-> NonEmptyLines(text)]

\* A get_props activation at its first statement: _get_props is about to scan.
\* i is the index of the line the loop is at (enumerate's i plus one);
\* own, lines and notes record where the records of out come from.
NewFrame ==
    [pc |-> "scan", i |-> 1, comments |-> <<>>, out |-> <<>>,
     notes |-> <<>>, lines |-> <<>>, own |-> <<>>]

SeqsUpTo(S, n) == UNION {[1..m -> S] : m \in 0..n}

\* The lines of the long texts: the two comments, a prop, a field that is no
\* prop and a method.
LongBodyLines == {CommentA, CommentMore, FieldA, FieldB, MethodLine}

\* The texts inspect.getsource can give for the documented class: short bodies
\* of any lines under either header, and for a class whose base is the root
\* also the long bodies under the plain header.
SourceTexts(cls) ==
    {<<h>> \o body : h \in HeaderLines,
                     body \in SeqsUpTo(BodyLines, MaxDerivedLines)}
    \cup
    {<<ClassLine>> \o body :
        body \in SeqsUpTo(LongBodyLines,
                          IF Bases[cls][1] = RootComponent THEN MaxLines ELSE 0)}

\* The texts of the library classes that are parsed as ancestors.
AncestorTexts ==
    {<<ClassLine, EmptyLine, CommentMore, EmptyLine, FieldC, MethodLine>>,
     <<ClassLine, CommentA, FieldA, CommentMore, FieldC>>,
     <<ClassLine, FieldC>>}

Ancestors == {"Parent", "Child"}

\* The ancestors get_props reaches from cls, the root class excluded.
RECURSIVE ParsedAncestors(_)
ParsedAncestors(cls) ==
    LET parent == Bases[cls][1]
    IN  IF parent \in Ancestors THEN {parent} \cup ParsedAncestors(parent) ELSE {}

DefaultText == <<ClassLine, EmptyLine, CommentMore, EmptyLine, FieldC, MethodLine>>

-----------------------------------------------------------------------------
(* component_docs(component), right after src = Source(component=component) *)

Init ==
    \E cls \in Documented :
        \E text \in SourceTexts(cls) :
            /\ getsource \in {gs \in [Ancestors -> AncestorTexts] :
                                \A a \in Ancestors \ ParsedAncestors(cls) :
                                    gs[a] = DefaultText}
            /\ sources = <<NewSource(cls, text)>>
            /\ frames = <<NewFrame>>
            /\ top = 1
            /\ phase = "len"
            /\ firstProps = <<>>
            /\ props = <<>>
            /\ rows = <<>>
            /\ printed = <<>>
            /\ error = "none"
            /\ events = <<>>
            /\ trig = <<>>
            /\ pos = 0
            /\ items = <<>>
            /\ widget = "none"
            /\ form_data = <<>>
            /\ submits = <<>>

-----------------------------------------------------------------------------
(* Source._get_props: one pass of the for loop per step *)

Scanning ==
    /\ error = "none"
    /\ phase \in {"len", "table"}
    /\ top >= 1
    /\ frames[top].pc = "scan"

Code == sources[top].code

AtLine == Scanning /\ frames[top].i <= Len(Code)

Line == Code[frames[top].i]

\* self.code[i - 1]: for i = 0 Python indexes from the end of the list
LineAbove ==
    IF frames[top].i = 1 THEN Code[Len(Code)] ELSE Code[frames[top].i - 1]

SetFrame(f) == frames' = [frames EXCEPT ![top] = f]

Advance(f) == [f EXCEPT !.i = @ + 1]

\* for i, line in enumerate(self.code): the list is exhausted
ScanEnd ==
    /\ Scanning
    /\ frames[top].i > Len(Code)
    /\ SetFrame([frames[top] EXCEPT !.pc = "props", !.own = frames[top].out])
    /\ UNCHANGED <<triggerVars, formVars, getsource, sources, top, phase, firstProps, props, rows, printed, error>>

\* if reached_functions: break
ScanStop ==
    /\ AtLine
    /\ reached_functions(Line)
    /\ SetFrame([frames[top] EXCEPT !.pc = "props", !.own = frames[top].out])
    /\ UNCHANGED <<triggerVars, formVars, getsource, sources, top, phase, firstProps, props, rows, printed, error>>

\* the loop takes the comment line out of self.code: comments.append(self.code.pop(i))
AppendCommentPopped ==
    /\ AtLine
    /\ ~reached_functions(Line)
    /\ IsCommentLine(Line)
    /\ SetFrame([frames[top] EXCEPT
                    !.comments = Append(@, Line),
                    !.notes = Append(@, frames[top].i)])
    /\ sources' = [sources EXCEPT ![top].code =
                      SubSeq(@, 1, frames[top].i - 1)
                      \o SubSeq(@, frames[top].i + 1, Len(@))]
    /\ UNCHANGED <<triggerVars, formVars, getsource, top, phase, firstProps, props, rows, printed, error>>

\* if line.strip().startswith("#"): comments.append(line); continue
AppendComment ==
    /\ AtLine
    /\ ~reached_functions(Line)
    /\ IsCommentLine(Line)
    /\ SetFrame(Advance([frames[top] EXCEPT
                            !.comments = Append(@, Line),
                            !.notes = Append(@, frames[top].i)]))
    /\ UNCHANGED <<triggerVars, formVars, getsource, sources, top, phase, firstProps, props, rows, printed, error>>

\* if match is None: continue
SkipNoMatch ==
    /\ AtLine
    /\ ~reached_functions(Line)
    /\ ~IsCommentLine(Line)
    /\ ~HasMatch(Line)
    /\ SetFrame(Advance(frames[top]))
    /\ UNCHANGED <<triggerVars, formVars, getsource, sources, top, phase, firstProps, props, rows, printed, error>>

\* if prop not in props: continue
SkipNotProp ==
    /\ AtLine
    /\ ~reached_functions(Line)
    /\ ~IsCommentLine(Line)
    /\ HasMatch(Line)
    /\ MatchedProp(Line) \notin ComponentProps
    /\ SetFrame(Advance(frames[top]))
    /\ UNCHANGED <<triggerVars, formVars, getsource, sources, top, phase, firstProps, props, rows, printed, error>>

AtPropLine ==
    /\ AtLine
    /\ ~reached_functions(Line)
    /\ ~IsCommentLine(Line)
    /\ HasMatch(Line)
    /\ MatchedProp(Line) \in ComponentProps

\* assert comment_above.startswith("#") fails
AssertFail ==
    /\ AtPropLine
    /\ ~StartsWith(Strip(LineAbove, White), <<"#">>)
    /\ error' = "AssertionError"
    /\ phase' = "aborted"
    /\ UNCHANGED <<triggerVars, formVars, getsource, sources, frames, top, firstProps, props, rows, printed>>

\* comment = Source.get_comment(comments); comments.clear(); out.append(Prop(...))
EmitProp ==
    /\ AtPropLine
    /\ StartsWith(Strip(LineAbove, White), <<"#">>)
    /\ LET f == frames[top]
           prop == MatchedProp(Line)
       IN  SetFrame(Advance([f EXCEPT
                !.out = Append(@, Prop(prop, Fields[prop], get_comment(f.comments))),
                !.comments = <<>>,
                !.lines = Append(@, [cls |-> sources[top].component,
                                     field |-> f.i,
                                     comments |-> f.notes]),
                !.notes = <<>>]))
    /\ UNCHANGED <<triggerVars, formVars, getsource, sources, top, phase, firstProps, props, rows, printed, error>>

-----------------------------------------------------------------------------
(* Source.get_props *)

AfterScan ==
    /\ error = "none"
    /\ phase \in {"len", "table"}
    /\ top >= 1
    /\ frames[top].pc = "props"

\* parent_cls = self.component.__bases__[0]
parent_cls == Bases[sources[top].component][1]

\* get_props without the test against the root class: the root is parsed too
CallParentAlways ==
    /\ AfterScan
    /\ IsComponentClass(parent_cls)
    /\ sources' = Append(SubSeq(sources, 1, top),
                         NewSource(parent_cls, <<ClassLine>>))
    /\ frames' = Append(SubSeq([frames EXCEPT ![top].pc = "call"], 1, top), NewFrame)
    /\ top' = top + 1
    /\ UNCHANGED <<triggerVars, formVars, getsource, phase, firstProps, props, rows, printed, error>>

\* props += Source(component=parent_cls).get_props(): the call
CallParent ==
    /\ AfterScan
    /\ parent_cls # RootComponent
    /\ IsComponentClass(parent_cls)
    /\ sources' = Append(SubSeq(sources, 1, top),
                         NewSource(parent_cls, getsource[parent_cls]))
    /\ frames' = Append(SubSeq([frames EXCEPT ![top].pc = "call"], 1, top), NewFrame)
    /\ top' = top + 1
    /\ UNCHANGED <<triggerVars, formVars, getsource, phase, firstProps, props, rows, printed, error>>

\* Source(component=parent_cls) for a class that is no Component: the
\* validation of the field component: Type[Component] raises.
BadParent ==
    /\ AfterScan
    /\ parent_cls # RootComponent
    /\ ~IsComponentClass(parent_cls)
    /\ error' = "ValidationError"
    /\ phase' = "aborted"
    /\ UNCHANGED <<triggerVars, formVars, getsource, sources, frames, top, firstProps, props, rows, printed>>

\* return props is reached: the parent is the root, or the parent's props are in
Returning ==
    /\ error = "none"
    /\ phase \in {"len", "table"}
    /\ top >= 1
    /\ \/ frames[top].pc = "props" /\ parent_cls = RootComponent
       \/ frames[top].pc = "joined"

\* the caller puts the parent's props in front of its own
ReturnToCallerInFront ==
    /\ Returning
    /\ top > 1
    /\ frames' = [frames EXCEPT
                    ![top].pc = "returned",
                    ![top - 1] = [@ EXCEPT !.pc = "joined",
                                           !.out = frames[top].out \o @,
                                           !.lines = frames[top].lines \o @]]
    /\ top' = top - 1
    /\ UNCHANGED <<triggerVars, formVars, getsource, sources, phase, firstProps, props, rows, printed, error>>

\* return props, into the caller's props += ...
ReturnToCaller ==
    /\ Returning
    /\ top > 1
    /\ frames' = [frames EXCEPT
                    ![top].pc = "returned",
                    ![top - 1] = [@ EXCEPT !.pc = "joined",
                                           !.out = @ \o frames[top].out,
                                           !.lines = @ \o frames[top].lines]]
    /\ top' = top - 1
    /\ UNCHANGED <<triggerVars, formVars, getsource, sources, phase, firstProps, props, rows, printed, error>>

-----------------------------------------------------------------------------
(* component_docs *)

\* if len(src.get_props()) > 0: ... else: the "No props" box
ReturnLen ==
    /\ Returning
    /\ top = 1
    /\ phase = "len"
    /\ firstProps' = frames[1].out
    /\ IF Len(frames[1].out) > 0
       THEN /\ phase' = "table"
            /\ sources' = <<sources[1]>>
            /\ frames' = <<NewFrame>>
            /\ top' = 1
       ELSE /\ phase' = "done"
            /\ frames' = [frames EXCEPT ![1].pc = "returned"]
            /\ top' = 0
            /\ UNCHANGED sources
    /\ UNCHANGED <<triggerVars, formVars, getsource, props, rows, printed, error>>

\* for prop in src.get_props(): the call returns its list
ReturnTable ==
    /\ Returning
    /\ top = 1
    /\ phase = "table"
    /\ props' = frames[1].out
    /\ phase' = "render"
    /\ frames' = [frames EXCEPT ![1].pc = "returned"]
    /\ top' = 0
    /\ UNCHANGED <<triggerVars, formVars, getsource, sources, firstProps, rows, printed, error>>

-----------------------------------------------------------------------------
(* prop_docs *)

\* Mapping from types to colors.
TYPE_COLORS == [int |-> "red", float |-> "orange", str |-> "yellow",
                bool |-> "teal", Component |-> "purple", List |-> "blue",
                Dict |-> "blue", Tuple |-> "blue", None |-> "gray",
                Figure |-> "green"]

\* TYPE_COLORS.get(type_, "gray"): type_ is a name, or the type itself when
\* it has no __name__, and then it equals no key.
ColorOf(type_) ==
    IF type_.named /\ type_.text \in DOMAIN TYPE_COLORS
    THEN TYPE_COLORS[type_.text]
    ELSE "gray"

\* prop_docs without the step from a Var to its argument
UnwrappedNot(type_) ==
    IF type_.var THEN [named |-> TRUE, text |-> "Var"]
    ELSE [named |-> type_.named, text |-> type_.text]

\* if _issubclass(prop.type_, rx.Var): type_ = get_args(type_)[0]
Unwrapped(type_) == [named |-> type_.named, text |-> type_.text]

\* the three cells of the row
prop_docs(prop) ==
    LET type_ == Unwrapped(prop.type_)
    IN  [name |-> prop.name,
         badge |-> [label |-> type_, color_scheme |-> ColorOf(type_)],
         description |-> prop.description]

\* except AttributeError: print(type_)
Printed(prop) ==
    IF prop.type_.named THEN <<>> ELSE <<Unwrapped(prop.type_)>>

\* rx.tr(*prop_docs(prop)) for the next prop of the list
PropDocs ==
    /\ error = "none"
    /\ phase = "render"
    /\ Len(rows) < Len(props)
    /\ LET prop == props[Len(rows) + 1]
       IN  /\ rows' = Append(rows, prop_docs(prop))
           /\ printed' = printed \o Printed(prop)
    /\ phase' = IF Len(rows) + 1 = Len(props) THEN "done" ELSE "render"
    /\ UNCHANGED <<triggerVars, formVars, getsource, sources, frames, top, firstProps, props, error>>

-----------------------------------------------------------------------------

Next ==
    \/ ScanEnd
    \/ ScanStop
    \/ AppendComment
    \/ SkipNoMatch
    \/ SkipNotProp
    \/ AssertFail
    \/ EmitProp
    \/ CallParent
    \/ BadParent
    \/ ReturnToCaller
    \/ ReturnLen
    \/ ReturnTable
    \/ PropDocs

Spec == Init /\ [][Next]_vars

-----------------------------------------------------------------------------
(* prop_docs on its own: the props of the table range over the types *)

TypeNames == DOMAIN TYPE_COLORS \cup {"Any", "EventChain"}

\* The types of a field: classes with a __name__, typing constructs without
\* one (given by their repr), and Var[...] of either.
PropTypes ==
    [var : BOOLEAN, named : {TRUE}, text : TypeNames]
    \cup [var : BOOLEAN, named : {FALSE}, text : {"None", "Union[str, int]"}]

\* Most props in the table.
MaxProps == 2

InitPropDocs ==
    /\ getsource = [a \in Ancestors |-> DefaultText]
    /\ sources = <<NewSource("Parent", <<ClassLine>>)>>
    /\ frames = <<>>
    /\ top = 0
    /\ phase = "render"
    /\ firstProps = <<>>
    /\ \E n \in 1..MaxProps :
          props \in [1..n -> {Prop(NameA, t, <<>>) : t \in PropTypes}]
    /\ rows = <<>>
    /\ printed = <<>>
    /\ error = "none"
    /\ events = <<>>
    /\ trig = <<>>
    /\ pos = 0
    /\ items = <<>>
    /\ widget = "none"
    /\ form_data = <<>>
    /\ submits = <<>>

NextPropDocs == PropDocs

SpecPropDocs == InitPropDocs /\ [][NextPropDocs]_vars

-----------------------------------------------------------------------------
(* component_docs: the event triggers.  This part reads the triggers of the  *)
(* component and nothing of the props part, and is followed on its own, from *)
(* the statement after the props part.                                       *)

\* EVENTS: the catalog of the descriptions of the event triggers.
EVENTS == [
    on_focus |->
        [description |-> "Function or event handler called when the element (or some element inside of it) receives focus. For example, it is called when the user clicks on a text input."],
    on_blur |->
        [description |-> "Function or event handler called when focus has left the element (or left some element inside of it). For example, it is called when the user clicks outside of a focused text input."],
    on_change |->
        [description |-> "Function or event handler called when the value of an element has changed. For example, it is called when the user types into a text input each keystoke triggers the on change."],
    on_click |->
        [description |-> "Function or event handler called when the user clicks on an element. For example, it's called when the user clicks on a button."],
    on_context_menu |->
        [description |-> "Function or event handler called when the user right-clicks on an element. For example, it is called when the user right-clicks on a button."],
    on_double_click |->
        [description |-> "Function or event handler called when the user double-clicks on an element. For example, it is called when the user double-clicks on a button."],
    on_mouse_up |->
        [description |-> "Function or event handler called when the user releases a mouse button on an element. For example, it is called when the user releases the left mouse button on a button."],
    on_mouse_down |->
        [description |-> "Function or event handler called when the user presses a mouse button on an element. For example, it is called when the user presses the left mouse button on a button."],
    on_mouse_enter |->
        [description |-> "Function or event handler called when the user's mouse enters an element. For example, it is called when the user's mouse enters a button."],
    on_mouse_leave |->
        [description |-> "Function or event handler called when the user's mouse leaves an element. For example, it is called when the user's mouse leaves a button."],
    on_mouse_move |->
        [description |-> "Function or event handler called when the user moves the mouse over an element. For example, it's called when the user moves the mouse over a button."],
    on_mouse_out |->
        [description |-> "Function or event handler called when the user's mouse leaves an element. For example, it is called when the user's mouse leaves a button."],
    on_mouse_over |->
        [description |-> "Function or event handler called when the user's mouse enters an element. For example, it is called when the user's mouse enters a button."],
    on_scroll |->
        [description |-> "Function or event handler called when the user scrolls the page. For example, it is called when the user scrolls the page down."],
    on_submit |->
        [description |-> "Function or event handler called when the user submits a form. For example, it is called when the user clicks on a submit button."],
    on_cancel |->
        [description |-> "Function or event handler called when the user cancels a form. For example, it is called when the user clicks on a cancel button."],
    on_edit |->
        [description |-> "Function or event handler called when the user edits a form. For example, it is called when the user clicks on a edit button."],
    on_change_start |->
        [description |-> "Function or event handler called when the user starts selecting a new value(By dragging or clicking)."],
    on_change_end |->
        [description |-> "Function or event handler called when the user is done selecting a new value(By dragging or clicking)."],
    on_complete |->
        [description |-> "Called when the user completes a form. For example, it's called when the user clicks on a complete button."],
    on_error |->
        [description |-> "The on_error event handler is called when the user encounters an error in a form. For example, it's called when the user clicks on a error button."],
    on_load |->
        [description |-> "The on_load event handler is called when the user loads a form. For example, it is called when the user clicks on a load button."],
    on_esc |->
        [description |-> "The on_esc event handler is called when the user presses the escape key. For example, it is called when the user presses the escape key."],
    on_open |->
        [description |-> "The on_open event handler is called when the user opens a form. For example, it is called when the user clicks on a open button."],
    on_close |->
        [description |-> "The on_close event handler is called when the user closes a form. For example, it is called when the user clicks on a close button."],
    on_close_complete |->
        [description |-> "The on_close_complete event handler is called when the user closes a form. For example, it is called when the user clicks on a close complete button."],
    on_overlay_click |->
        [description |-> "The on_overlay_click event handler is called when the user clicks on an overlay. For example, it is called when the user clicks on a overlay button."],
    on_key_down |->
        [description |-> "The on_key_down event handler is called when the user presses a key."],
    on_key_up |->
        [description |-> "The on_key_up event handler is called when the user releases a key."],
    on_ready |->
        [description |-> "The on_ready event handler is called when the script is ready to be executed."],
    on_mount |->
        [description |-> "The on_mount event handler is called when the component is loaded on the page."],
    on_unmount |->
        [description |-> "The on_unmount event handler is called when the component is removed from the page. This handler is only called during navigation, not when the page is refreshed."],
    on_input |->
        [description |-> "The on_input event handler is called when the editor receives input from the user. It receives the raw browser event as an argument."],
    on_resize_editor |->
        [description |-> "The on_resize_editor event handler is called when the editor is resized. It receives the height and previous height as arguments."],
    on_copy |->
        [description |-> "The on_copy event handler is called when the user copies text from the editor. It receives the clipboard data as an argument."],
    on_cut |->
        [description |-> "The on_cut event handler is called when the user cuts text from the editor. It receives the clipboard data as an argument."],
    on_paste |->
        [description |-> "The on_paste event handler is called when the user pastes text into the editor. It receives the clipboard data and max character count as arguments."],
    toggle_code_view |->
        [description |-> "The toggle_code_view event handler is called when the user toggles code view. It receives a boolean whether code view is active."],
    toggle_full_screen |->
        [description |-> "The toggle_full_screen event handler is called when the user toggles full screen. It receives a boolean whether full screen is active."],
    on_cell_activated |->
        [description |-> "The on_cell_activated event handler is called when the user activate a cell from the data editor. It receive the coordinates of the cell."],
    on_cell_clicked |->
        [description |-> "The on_cell_clicked event handler is called when the user click on a cell of the data editor. It receive the coordinates of the cell."],
    on_cell_context_menu |->
        [description |-> "The on_cell_context_menu event handler is called when the user right-click on a cell of the data editor. It receives the coordinates of the cell."],
    on_cell_edited |->
        [description |-> "The on_cell_edited event handler is called when the user modify the content of a cell. It receives the coordinates of the cell and the modified content."],
    on_group_header_clicked |->
        [description |-> "The on_group_header_clicked event handler is called when the user left-click on a group header of the data editor. It receive the index and the data of the group header."],
    on_group_header_context_menu |->
        [description |-> "The on_group_header_context_menu event handler is called when the user right-click on a group header of the data editor. It receive the index and the data of the group header."],
    on_group_header_renamed |->
        [description |-> "The on_group_header_context_menu event handler is called when the user rename a group header of the data editor. It receive the index and the modified content of the group header."],
    on_header_clicked |->
        [description |-> "The on_header_clicked event handler is called when the user left-click a header of the data editor. It receive the index and the content of the header."],
    on_header_context_menu |->
        [description |-> "The on_header_context_menu event handler is called when the user right-click a header of the data editor. It receives the index and the content of the header. "],
    on_header_menu_click |->
        [description |-> "The on_header_menu_click event handler is called when the user click on the menu button of the header. (menu header not implemented yet)"],
    on_item_hovered |->
        [description |-> "The on_item_hovered event handler is called when the user hover on an item of the data editor."],
    on_delete |->
        [description |-> "The on_delete event handler is called when the user delete a cell of the data editor."],
    on_finished_editing |->
        [description |-> "The on_finished_editing event handler is called when the user finish an editing, regardless of if the value changed or not."],
    on_row_appended |->
        [description |-> "The on_row_appended event handler is called when the user add a row to the data editor."],
    on_selection_cleared |->
        [description |-> "The on_selection_cleared event handler is called when the user unselect a region of the data editor."],
    on_column_resize |->
        [description |-> "The on_column_resize event handler is called when the user try to resize a column from the data editor."]]

\* rx.Component.create().get_event_triggers().keys(), as far as the names of
\* the model go
DefaultTriggers == {"on_click", "on_focus"}

\* The names a component's triggers are taken from: two default triggers,
\* on_drop, two triggers of the catalog and one the catalog lacks.
TriggerNames == {"on_click", "on_focus", "on_drop", "on_change", "on_submit",
                 "on_select"}

\* Most event triggers of a component.
MaxTriggers == 4

\* The keys of a dict: no name twice.
TriggerLists ==
    {keys \in SeqsUpTo(TriggerNames, MaxTriggers) :
        \A j, k \in 1..Len(keys) : j # k => keys[j] # keys[k]}

\* if event not in default_triggers and event not in ("on_drop",)
IsSpecific(event) == event \notin DefaultTriggers /\ event \notin {"on_drop"}

\* component_docs right after the props part: triggers = [], trig = []
InitTriggers ==
    /\ getsource = [a \in Ancestors |-> DefaultText]
    /\ sources = <<NewSource("Parent", <<ClassLine>>)>>
    /\ frames = <<>>
    /\ top = 0
    /\ phase = "collect"
    /\ firstProps = <<>>
    /\ props = <<>>
    /\ rows = <<>>
    /\ printed = <<>>
    /\ error = "none"
    /\ events \in TriggerLists
    /\ trig = <<>>
    /\ pos = 1
    /\ items = <<>>
    /\ widget = "none"
    /\ form_data = <<>>
    /\ submits = <<>>

AtEvent(where) ==
    /\ error = "none"
    /\ phase = where
    /\ pos <= Len(events)

\* for event in ...keys(): if ...: trig.append(event)
CollectKeep ==
    /\ AtEvent("collect")
    /\ IsSpecific(events[pos])
    /\ trig' = Append(trig, events[pos])
    /\ pos' = pos + 1
    /\ UNCHANGED <<propVars, phase, error, events, items, widget, formVars>>

\* for event in ...keys(): the filter rejects the event
CollectSkip ==
    /\ AtEvent("collect")
    /\ ~IsSpecific(events[pos])
    /\ pos' = pos + 1
    /\ UNCHANGED <<propVars, phase, error, events, trig, items, widget, formVars>>

\* if trig: the comprehension over the triggers starts
ChooseSpecific ==
    /\ error = "none"
    /\ phase = "collect"
    /\ pos > Len(events)
    /\ trig # <<>>
    /\ phase' = "specific"
    /\ pos' = 1
    /\ UNCHANGED <<propVars, error, events, trig, items, widget, formVars>>

\* else: the box with the heading "Base Event Triggers" alone, and the page
ChooseBaseOnly ==
    /\ error = "none"
    /\ phase = "collect"
    /\ pos > Len(events)
    /\ trig = <<>>
    /\ widget' = "base_only"
    /\ phase' = "page"
    /\ UNCHANGED <<propVars, error, events, trig, pos, items, formVars>>

\* rx.accordion_item(... rx.code(event) ... rx.text(EVENTS[event]["description"]))
ShowTrigger ==
    /\ AtEvent("specific")
    /\ IsSpecific(events[pos])
    /\ events[pos] \in DOMAIN EVENTS
    /\ items' = Append(items, [code |-> events[pos],
                               text |-> EVENTS[events[pos]].description])
    /\ pos' = pos + 1
    /\ UNCHANGED <<propVars, phase, error, events, trig, widget, formVars>>

\* EVENTS[event] for an event that is no key of EVENTS raises
ShowKeyError ==
    /\ AtEvent("specific")
    /\ IsSpecific(events[pos])
    /\ events[pos] \notin DOMAIN EVENTS
    /\ error' = "KeyError"
    /\ phase' = "aborted"
    /\ UNCHANGED <<propVars, events, trig, pos, items, widget, formVars>>

\* the comprehension's filter rejects the event
ShowSkip ==
    /\ AtEvent("specific")
    /\ ~IsSpecific(events[pos])
    /\ pos' = pos + 1
    /\ UNCHANGED <<propVars, phase, error, events, trig, items, widget, formVars>>

\* the accordion of the event triggers with specific_triggers in it, and the page
ShowEnd ==
    /\ error = "none"
    /\ phase = "specific"
    /\ pos > Len(events)
    /\ widget' = "specific"
    /\ phase' = "page"
    /\ UNCHANGED <<propVars, error, events, trig, pos, items, formVars>>

NextTriggers ==
    \/ CollectKeep
    \/ CollectSkip
    \/ ChooseSpecific
    \/ ChooseBaseOnly
    \/ ShowTrigger
    \/ ShowKeyError
    \/ ShowSkip
    \/ ShowEnd

SpecTriggers == InitTriggers /\ [][NextTriggers]_vars

-----------------------------------------------------------------------------
(* FormState *)

FormKeys == {"name", "email"}

FormValues == {"x", "y"}

\* The dicts a submit can carry.
FormDicts == UNION {[keys -> FormValues] : keys \in SUBSET FormKeys}

\* Most handle_submit calls.
MaxSubmits == 3

\* form_data: dict = {}
InitForm ==
    /\ getsource = [a \in Ancestors |-> DefaultText]
    /\ sources = <<NewSource("Parent", <<ClassLine>>)>>
    /\ frames = <<>>
    /\ top = 0
    /\ phase = "page"
    /\ firstProps = <<>>
    /\ props = <<>>
    /\ rows = <<>>
    /\ printed = <<>>
    /\ error = "none"
    /\ events = <<>>
    /\ trig = <<>>
    /\ pos = 0
    /\ items = <<>>
    /\ widget = "none"
    /\ form_data = <<>>
    /\ submits = <<>>

\* handle_submit that adds the keys of the submit to the data it holds
handle_submit_merged(arg) ==
    /\ Len(submits) < MaxSubmits
    /\ form_data' = arg @@ form_data
    /\ submits' = Append(submits, arg)
    /\ UNCHANGED <<propVars, phase, error, triggerVars>>

\* FormState.handle_submit(form_data): self.form_data = form_data
handle_submit(arg) ==
    /\ Len(submits) < MaxSubmits
    /\ form_data' = arg
    /\ submits' = Append(submits, arg)
    /\ UNCHANGED <<propVars, phase, error, triggerVars>>

NextForm == \E arg \in FormDicts : handle_submit(arg)

SpecForm == InitForm /\ [][NextForm]_vars

-----------------------------------------------------------------------------
(* Where the records of an activation come from *)

Activations == 1..Len(frames)

\* _get_props of activation k has returned; frames[k].own is what it returned.
Scanned(k) == frames[k].pc \in {"props", "call", "joined", "returned"}

\* The records activation k has emitted from its own class so far.
OwnRecords(k) ==
    IF Scanned(k) THEN 1..Len(frames[k].own) ELSE 1..Len(frames[k].out)

\* The first line of the run of comment lines that ends right above line f.
RECURSIVE RunStart(_, _)
RunStart(code, f) ==
    IF f > 1 /\ IsCommentLine(code[f - 1]) THEN RunStart(code, f - 1) ELSE f

\* The indices of the comment lines directly above line f, in source order.
RunAbove(code, f) ==
    [j \in 1..(f - RunStart(code, f)) |-> RunStart(code, f) + j - 1]

\* The content of a comment line: stripped, markers removed.
CommentText(line) == Strip(Strip(line, White), {"#"})

TextOf(code, indices) ==
    Join([j \in 1..Len(indices) |-> CommentText(code[indices[j]])])

\* A line that defines a method: its stripped text starts with "def ".
IsMethodDef(line) == StartsWith(Strip(line, White), DefPattern)

\* The index of the first line of code that satisfies Test, Len(code) + 1 if none.
FirstLine(code, Test(_)) ==
    Min({j \in 1..Len(code) : Test(code[j])} \cup {Len(code) + 1})

-----------------------------------------------------------------------------
(* C1 *)

DescA == <<"d", "e", "s", "c", "_", "a">>

\* The class of the claim: field a under the comment "# desc_a", field b.
C1Codes == {<<ClassLine, CommentA, FieldA, FieldB>>,
            <<ClassLine, FieldB, CommentA, FieldA>>}

\* C1 as stated: for a class with the field a under the comment "# desc_a"
\* and the field b that is no prop, _get_props returns exactly one record,
\* for a, with the description "desc_a".
C1_DescriptionExact ==
    \A k \in Activations :
        (Scanned(k) /\ sources[k].code \in C1Codes)
            => frames[k].own = <<Prop(NameA, VarInt, DescA)>>

\* C1 as amended: for that class _get_props returns exactly one record, for
\* a, and its description is " desc_a": the text after the marker, with the
\* space that follows the marker.
C1_DescriptionWithSpace ==
    \A k \in Activations :
        (Scanned(k) /\ sources[k].code \in C1Codes)
            => frames[k].own = <<Prop(NameA, VarInt, <<" ">> \o DescA)>>

C1_Witness ==
    \E k \in Activations :
        /\ Scanned(k)
        /\ sources[k].code = <<ClassLine, FieldB, CommentA, FieldA>>
        /\ Len(frames[k].own) = 1
        /\ frames[k].own[1].name = NameA

-----------------------------------------------------------------------------
(* C2 *)

\* C2: when two or more consecutive comment lines stand directly above the
\* field line of an emitted record, the description of the record is the
\* concatenation, in source order, of the contents of those lines.
C2_Concatenation ==
    \A k \in Activations : \A r \in OwnRecords(k) :
        LET code == sources[k].code
            run == RunAbove(code, frames[k].lines[r].field)
        IN  Len(run) >= 2 => frames[k].out[r].description = TextOf(code, run)

-----------------------------------------------------------------------------
(* C3 *)

\* The line the scan is at names a prop and the line before it in the code
\* is no comment line, or there is no line before it.
UncommentedPropLine ==
    /\ AtPropLine
    /\ \/ frames[top].i = 1
       \/ ~IsCommentLine(Code[frames[top].i - 1])

\* C3: whenever the scan is at a line that names a prop and has no comment
\* line directly before it, whatever the position of the line, the step
\* aborts the parse with the assertion failure.
C3_AbortsWithoutComment ==
    [][UncommentedPropLine => (error' = "AssertionError" /\ phase' = "aborted")]_vars

-----------------------------------------------------------------------------
(* C4 *)

\* C4: once the props of the base class are in, the list of an activation is
\* the records of its own class followed by the list the base class returned,
\* and exactly the first records are those of its own class.
C4_DerivedThenBase ==
    \A k \in Activations :
        (k < Len(frames) /\ frames[k].pc \in {"joined", "returned"})
            => /\ frames[k].out = frames[k].own \o frames[k + 1].out
               /\ \A r \in 1..Len(frames[k].out) :
                      (frames[k].lines[r].cls = sources[k].component)
                          <=> (r <= Len(frames[k].own))

C4_Witness ==
    /\ phase = "done"
    /\ sources[1].component = "Child"
    /\ Len(frames) = 2
    /\ frames[1].own # <<>>
    /\ frames[2].own # <<>>
    /\ props = frames[1].own \o frames[2].own

-----------------------------------------------------------------------------
(* C5 *)

\* C5: no record and no description text comes from the first line in which
\* "def " occurs or from a later line, and the line the scan stops at is the
\* first method definition of the class (the end of the code if it has none).
C5_StopsAtFirstMethod ==
    \A k \in Activations :
        LET code == sources[k].code
            stop == FirstLine(code, reached_functions)
        IN  /\ \A r \in OwnRecords(k) :
                   /\ frames[k].lines[r].field < stop
                   /\ \A j \in 1..Len(frames[k].lines[r].comments) :
                          frames[k].lines[r].comments[j] < stop
            /\ Scanned(k) => frames[k].i = FirstLine(code, IsMethodDef)

-----------------------------------------------------------------------------
(* C6 *)

\* C6: every prop of the table gets its row; the colour of the row is gray
\* when the type (the argument of a Var) has no __name__, and then the type
\* is printed; it is gray when the name is no key of TYPE_COLORS and the
\* mapped colour when it is.
C6_Colors ==
    /\ (phase = "done" /\ error = "none" /\ props # <<>>) => Len(rows) = Len(props)
    /\ Len(rows) <= Len(props)
    /\ \A r \in 1..Len(rows) :
          LET type_ == props[r].type_
              color == rows[r].badge.color_scheme
          IN  /\ rows[r].name = props[r].name
              /\ rows[r].description = props[r].description
              /\ ~type_.named => color = "gray"
              /\ (type_.named /\ type_.text \notin DOMAIN TYPE_COLORS) => color = "gray"
              /\ (type_.named /\ type_.text \in DOMAIN TYPE_COLORS)
                    => color = TYPE_COLORS[type_.text]
    /\ printed = SelectSeq([r \in 1..Len(rows) |->
                              [named |-> props[r].type_.named,
                               text |-> props[r].type_.text]],
                           LAMBDA t : ~t.named)

C6_Witness ==
    /\ phase = "done"
    /\ Len(rows) = 2
    /\ props[1].type_ = [var |-> TRUE, named |-> FALSE, text |-> "Union[str, int]"]
    /\ rows[1].badge.color_scheme = "gray"
    /\ props[2].type_ = [var |-> TRUE, named |-> TRUE, text |-> "Figure"]
    /\ rows[2].badge.color_scheme = "green"
    /\ Len(printed) = 1

-----------------------------------------------------------------------------
(* C7 *)

\* C7: the description of every emitted record is built from the run of
\* comment lines directly above its own field line and from no other line:
\* the comments it takes are exactly that run, and its text is their text.
C7_OnlyRunAbove ==
    \A k \in Activations : \A r \in OwnRecords(k) :
        LET code == sources[k].code
            run == RunAbove(code, frames[k].lines[r].field)
        IN  /\ frames[k].lines[r].comments = run
            /\ frames[k].out[r].description = TextOf(code, run)

-----------------------------------------------------------------------------
(* C8 *)

\* C8: every record names a prop of the component and carries the declared
\* type of that prop, its field line names that prop and has a comment line
\* directly before it, and the records are in the order of their field lines.
C8_Records ==
    \A k \in Activations : \A r \in OwnRecords(k) :
        LET code == sources[k].code
            rec == frames[k].out[r]
            f == frames[k].lines[r].field
        IN  /\ rec.name \in ComponentProps
            /\ rec.type_ = Fields[rec.name]
            /\ MatchedProp(code[f]) = rec.name
            /\ f > 1
            /\ IsCommentLine(code[f - 1])
            /\ r > 1 => frames[k].lines[r - 1].field < f

-----------------------------------------------------------------------------
(* C9 *)

\* The classes that are left to parse above cls, the nearest first.
RECURSIVE ClassesAbove(_)
ClassesAbove(cls) ==
    LET parent == Bases[cls][1]
    IN  IF parent # RootComponent /\ IsComponentClass(parent)
        THEN <<parent>> \o ClassesAbove(parent)
        ELSE <<>>

\* The steps activation k has left.
StepsLeft(k) ==
    CASE frames[k].pc = "scan"     -> Len(sources[k].code) + 1 - frames[k].i + 4
      [] frames[k].pc = "props"    -> 3
      [] frames[k].pc = "call"     -> 2
      [] frames[k].pc = "joined"   -> 1
      [] frames[k].pc = "returned" -> 0

RECURSIVE Sum(_)
Sum(numbers) ==
    IF numbers = <<>> THEN 0 ELSE Head(numbers) + Sum(Tail(numbers))

\* A bound on the steps the running get_props call has left: those of its
\* activations and those of the classes it has not reached yet.
Rank ==
    LET above == IF frames = <<>> THEN <<>>
                 ELSE ClassesAbove(sources[Len(frames)].component)
    IN  Sum([k \in 1..Len(frames) |-> StepsLeft(k)])
        + Sum([j \in 1..Len(above) |->
                  Len(NonEmptyLines(getsource[above[j]])) + 4])

\* The Source objects of a get_props call are those of the given class and of
\* the first bases above it, one each, none of them the root or above it, and
\* none is made above a class whose first base is the root.
WalksFirstBases ==
    /\ Len(frames) = Len(sources)
    /\ \A k \in 1..Len(sources) :
          /\ sources[k].component \in Documented
          /\ k > 1 => sources[k].component = Bases[sources[k - 1].component][1]
          /\ \A j \in 1..(k - 1) : sources[j].component # sources[k].component
          /\ Bases[sources[k].component][1] = RootComponent => k = Len(sources)

\* C9: get_props parses the given class and the first bases above it, each
\* once, nearest first, never the root class or a class above it, and stops
\* at the class whose first base is the root; every step of a call takes one
\* off a finite count of the steps that are left, so the call terminates.
C9_WalkTerminates ==
    /\ []WalksFirstBases
    /\ [][(phase \in {"len", "table"} /\ phase' = phase)
              => (Rank' < Rank /\ Rank' >= 0)]_vars

C9_Witness ==
    /\ phase = "done"
    /\ Len(sources) = 3
    /\ sources[1].component = "GrandChild"
    /\ sources[2].component = "Child"
    /\ sources[3].component = "Parent"
    /\ \A k \in 1..3 : frames[k].pc = "returned"
    /\ props # <<>>

-----------------------------------------------------------------------------
(* C10 *)

\* C10: no step changes the component or the code lines of a live Source, and
\* the second get_props call of component_docs returns, with a list equal to
\* the list of the first call.
C10_SourceImmutable ==
    [][/\ \A k \in 1..Len(sources) :
              k <= Len(sources') => sources'[k] = sources[k]
       /\ phase = "table" => error' = "none"
       /\ phase' = "render" => props' = firstProps']_vars

C10_Witness ==
    /\ phase = "done"
    /\ Len(props) >= 2
    /\ props = firstProps
    /\ Len(sources[1].code) >= 5

-----------------------------------------------------------------------------
(* C11 *)

\* The triggers of the component that are no default trigger and not on_drop,
\* in the order of the component's triggers.
SpecificTriggers ==
    SelectSeq(events, LAMBDA event :
                          event \notin DefaultTriggers /\ event # "on_drop")

\* The page shows exactly the specific triggers, in their order, each with
\* its description of the catalog; with none of them it shows the base box.
ShowsSpecificTriggers ==
    /\ Len(items) <= Len(SpecificTriggers)
    /\ \A k \in 1..Len(items) :
          /\ items[k].code = SpecificTriggers[k]
          /\ items[k].code \in DOMAIN EVENTS
                => items[k].text = EVENTS[items[k].code].description
    /\ phase = "page" =>
          IF SpecificTriggers = <<>>
          THEN widget = "base_only" /\ items = <<>>
          ELSE widget = "specific" /\ Len(items) = Len(SpecificTriggers)

\* C11: component_docs shows exactly the triggers of the component that are
\* no default trigger and not on_drop, in the component's order, each with
\* its description of EVENTS, and the base box alone when there are none; the
\* rendering fails for no set of triggers, an entry of EVENTS or not.
C11_TriggersShown ==
    /\ ShowsSpecificTriggers
    /\ error # "KeyError"

-----------------------------------------------------------------------------
(* C12 *)

\* form_data is the empty dict before the first submit and the argument of
\* the last handle_submit call after it.
HoldsLastSubmit ==
    IF submits = <<>> THEN form_data = <<>>
    ELSE /\ form_data = submits[Len(submits)]
         /\ DOMAIN form_data = DOMAIN submits[Len(submits)]

\* C12: form_data is empty at first and then is exactly the argument of the
\* last handle_submit call, with no key of an earlier submit left in it, and
\* a submit changes nothing but form_data.
C12_LastSubmitOnly ==
    /\ []HoldsLastSubmit
    /\ [][submits' # submits
             => UNCHANGED <<propVars, phase, error, triggerVars>>]_vars

C12_Witness ==
    /\ Len(submits) = 2
    /\ DOMAIN submits[1] = {"name", "email"}
    /\ DOMAIN submits[2] = {"email"}
    /\ DOMAIN form_data = {"email"}
    /\ form_data["email"] = submits[2]["email"]

====
